---- MODULE Spec2Model ----
(***************************************************************************)
(* pplaces (src/main.rs): an inventory of local git repositories.          *)
(*   scan <path>  walks a directory tree, merges one record per directory  *)
(*                that contains a .git directory into the cache, sorts the *)
(*                cache and writes it to the cache file;                   *)
(*   show         prints the cached records;                               *)
(*   clone <args> runs git clone unless a cached record already has a      *)
(*                remote with the same url ending.                         *)
(* Strings whose characters matter (urls, remotes, paths as printed) are   *)
(* sequences of one-character strings.                                     *)
(***************************************************************************)
EXTENDS Integers, Sequences, FiniteSets, TLC

VARIABLES fs, cacheFile, fetched, pc, run, url, ending

vars == <<fs, cacheFile, fetched, pc, run, url, ending>>

(***************************************************************************)
(* Strings                                                                 *)
(***************************************************************************)

\* " "
S_space == <<" ">>

\* ".git"
S_dotgit == <<".", "g", "i", "t">>

\* "git@"
S_gitat == <<"g", "i", "t", "@">>

\* "http"
S_http == <<"h", "t", "t", "p">>

\* ":"
S_colon == <<":">>

\* "/"
S_slash == <<"/">>

\* "https://"
S_https == <<"h", "t", "t", "p", "s", ":", "/", "/">>

\* " (fetch)"
S_fetch == <<" ", "(", "f", "e", "t", "c", "h", ")">>

\* " (push)"
S_push == <<" ", "(", "p", "u", "s", "h", ")">>

\* "github.com"
S_github == <<"g", "i", "t", "h", "u", "b", ".", "c", "o", "m">>

\* "www.github.com"
S_wwwgithub == <<"w", "w", "w", ".", "g", "i", "t", "h", "u", "b", ".", "c", "o", "m">>

\* "foo"
S_foo == <<"f", "o", "o">>

\* "bar"
S_bar == <<"b", "a", "r">>

\* "baz"
S_baz == <<"b", "a", "z">>

\* "x.github.io"
S_pages == <<"x", ".", "g", "i", "t", "h", "u", "b", ".", "i", "o">>

\* "/srv/git/x.git (fetch)"
S_local == <<"/", "s", "r", "v", "/", "g", "i", "t", "/", "x", ".", "g", "i", "t", " ", "(", "f", "e", "t", "c", "h", ")">>

\* "-q"
S_quiet == <<"-", "q">>

\* "dest"
S_dest == <<"d", "e", "s", "t">>

Option == [some : BOOLEAN, val : Int]
None == [some |-> FALSE, val |-> 0]
Some(x) == [some |-> TRUE, val |-> x]

\* str::starts_with
starts_with(s, p) == Len(s) >= Len(p) /\ SubSeq(s, 1, Len(p)) = p

\* str::ends_with
ends_with(s, p) == Len(s) >= Len(p) /\ SubSeq(s, Len(s) - Len(p) + 1, Len(s)) = p

\* str::find: the index of the first occurrence of p in s, 0 when there is none
find(s, p) ==
    LET hits == {i \in 1..(Len(s) - Len(p) + 1) : SubSeq(s, i, i + Len(p) - 1) = p}
    IN IF hits = {} THEN 0 ELSE CHOOSE i \in hits : \A j \in hits : i <= j

\* str::split_once: the parts before and after the first occurrence of p
split_once(s, p) ==
    LET i == find(s, p)
    IN IF i = 0 THEN [some |-> FALSE, before |-> <<>>, after |-> <<>>]
       ELSE [some |-> TRUE, before |-> SubSeq(s, 1, i - 1),
             after |-> SubSeq(s, i + Len(p), Len(s))]

\* str::split on a one-character separator: the sequence of pieces
RECURSIVE split(_, _)
split(s, c) ==
    LET i == find(s, c)
    IN IF i = 0 THEN <<s>>
       ELSE <<SubSeq(s, 1, i - 1)>> \o split(SubSeq(s, i + 1, Len(s)), c)

\* Iterator::skip
skip(q, n) == SubSeq(q, n + 1, Len(q))

\* [T]::join
RECURSIVE join(_, _)
join(q, c) ==
    IF q = <<>> THEN <<>>
    ELSE IF Len(q) = 1 THEN q[1]
    ELSE q[1] \o c \o join(Tail(q), c)

(***************************************************************************)
(* get_url_ending (main.rs 254-275).  ok = FALSE is a panic.               *)
(***************************************************************************)
Panicked == [ok |-> FALSE, val |-> <<>>]

strip_dot_git_first(u) == split_once(u, S_dotgit).before

strip_dot_git(u) == IF ends_with(u, S_dotgit) THEN strip_dot_git_first(u) ELSE u

get_url_ending(u0) ==
    LET u1 == split(u0, S_space)[1]
        u == strip_dot_git(u1)
    IN IF starts_with(u, S_gitat)
       THEN LET r == split_once(u, S_colon)
            IN IF r.some THEN [ok |-> TRUE, val |-> r.after] ELSE Panicked
       ELSE IF starts_with(u, S_http)
       THEN [ok |-> TRUE, val |-> join(skip(split(u, S_slash), 3), S_slash)]
       ELSE Panicked

(***************************************************************************)
(* Well-formed remote urls: https://host/a/b or git@host:a/b, then an      *)
(* optional .git, then an optional " (fetch)" or " (push)".                *)
(***************************************************************************)
Hosts == {S_github, S_wwwgithub}
Names == {S_foo, S_bar, S_pages}
Annotations == {<<>>, S_fetch, S_push}

UrlShapes == [scheme : {"https", "ssh"}, host : Hosts, a : Names, b : Names,
              git : BOOLEAN, annot : Annotations]

UrlText(w) ==
    (IF w.scheme = "https"
     THEN S_https \o w.host \o S_slash \o w.a \o S_slash \o w.b
     ELSE S_gitat \o w.host \o S_colon \o w.a \o S_slash \o w.b)
    \o (IF w.git THEN S_dotgit ELSE <<>>) \o w.annot

NoUrl == [scheme |-> "none", host |-> <<>>, a |-> <<>>, b |-> <<>>,
          git |-> FALSE, annot |-> <<>>]

NoEnding == [done |-> FALSE, ok |-> FALSE, val |-> <<>>]

(***************************************************************************)
(* The file system.  A path is the sequence of its components below "/".   *)
(***************************************************************************)
Root == <<>>
DirA == <<"a">>
DirAB == <<"a", "b">>
DotGit == ".git"

\* the directories that can hold a repository
RepoCandidates == {DirA, DirAB}

DirUniverse ==
    {Root} \cup RepoCandidates
    \cup {Append(d, DotGit) : d \in RepoCandidates}
    \cup {Append(Append(d, DotGit), "refs") : d \in RepoCandidates}

\* /a/b/.git can also be a plain file (a worktree or submodule checkout)
FileUniverse == {Append(DirAB, DotGit)}

Parent(p) == SubSeq(p, 1, Len(p) - 1)

IsPrefix(p, q) == Len(p) <= Len(q) /\ SubSeq(q, 1, Len(p)) = p

FileSystems ==
    {f \in [dirs : SUBSET DirUniverse, files : SUBSET FileUniverse] :
        /\ Root \in f.dirs
        /\ f.dirs \cap f.files = {}
        /\ \A p \in (f.dirs \cup f.files) \ {Root} : Parent(p) \in f.dirs
        /\ \A d \in RepoCandidates :
              Append(d, DotGit) \in f.dirs
                  <=> Append(Append(d, DotGit), "refs") \in f.dirs}

EmptyFs == [dirs |-> {Root}, files |-> {}]

\* Path::to_str of an absolute path
NameChars(n) ==
    CASE n = "a" -> <<"a">>
      [] n = "b" -> <<"b">>
      [] n = "refs" -> <<"r", "e", "f", "s">>
      [] n = DotGit -> S_dotgit

RECURSIVE PathStr(_)
PathStr(p) ==
    IF p = <<>> THEN S_slash
    ELSE IF Len(p) = 1 THEN S_slash \o NameChars(p[1])
    ELSE PathStr(Parent(p)) \o S_slash \o NameChars(p[Len(p)])

\* fs::read_dir: the entries of a directory, in one of the orders the
\* operating system may report them
NameOrder == <<DotGit, "a", "b", "refs">>

Reverse(q) == [i \in 1..Len(q) |-> q[Len(q) + 1 - i]]

read_dir(f, p, ord) ==
    LET Present(n) == Append(p, n) \in (f.dirs \cup f.files)
        asc == SelectSeq(NameOrder, Present)
    IN IF ord = "asc" THEN asc ELSE Reverse(asc)

is_dir_or_file(f, p) == p \in (f.dirs \cup f.files)

\* Path::is_dir
is_dir(f, p) == p \in f.dirs

\* Path::ends_with(".git"): the last component is .git
ends_with_dot_git(p) == p # <<>> /\ p[Len(p)] = DotGit

(***************************************************************************)
(* What git reports for a repository (fetch_metadata, main.rs 117-182):    *)
(* the remote lines and the time of the last commit, in days.              *)
(***************************************************************************)
MaxTime == 2

\* "git@github.com:foo/bar.git (fetch)" and its push line
RemoteFooBar == S_gitat \o S_github \o S_colon \o S_foo \o S_slash \o S_bar \o S_dotgit

Upstreams == {<<>>, <<RemoteFooBar \o S_fetch, RemoteFooBar \o S_push>>}

Times == {None} \cup {Some(t) : t \in 1..MaxTime}

GitReports == [upstream : Upstreams, latest_commit : Times]

EmptyReport == [upstream |-> <<>>, latest_commit |-> None]

HasDotGit(f, d) == Append(d, DotGit) \in (f.dirs \cup f.files)

NoFault == [kind |-> "none", at |-> Root]

Faults ==
    {NoFault}
    \cup [kind : {"read_dir"}, at : {Root} \cup RepoCandidates]
    \cup [kind : {"git"}, at : RepoCandidates]

fetch_metadata(path, env) ==
    IF env.fault = [kind |-> "git", at |-> path]
    THEN [ok |-> FALSE, data |-> [path |-> PathStr(path), upstream |-> <<>>,
                                  latest_commit |-> None]]
    ELSE [ok |-> TRUE,
          data |-> [path |-> PathStr(path),
                    upstream |-> env.git[path].upstream,
                    latest_commit |-> env.git[path].latest_commit]]

(***************************************************************************)
(* update_repo_data (main.rs 104-115)                                      *)
(***************************************************************************)
swap_remove_truncate(v, i) == SubSeq(v, 1, i - 1)

\* Vec::swap_remove
swap_remove(v, i) ==
    LET n == Len(v)
    IN IF i = n THEN SubSeq(v, 1, n - 1)
       ELSE SubSeq(v, 1, i - 1) \o <<v[n]>> \o SubSeq(v, i + 1, n - 1)

\* cache.iter().enumerate().find(|(_, e)| e.path == path): 0 when none
position(cache, path) ==
    LET hits == {i \in 1..Len(cache) : cache[i].path = path}
    IN IF hits = {} THEN 0 ELSE CHOOSE i \in hits : \A j \in hits : i <= j

merge_keep_old(cache, data) == Append(cache, data)

merge(cache, data) ==
    LET i == position(cache, data.path)
    IN Append(IF i # 0 THEN swap_remove(cache, i) ELSE cache, data)

update_repo_data(path, st, env) ==
    LET m == fetch_metadata(path, env)
    IN IF ~m.ok THEN [st EXCEPT !.ok = FALSE]
       ELSE [st EXCEPT !.cache = merge(st.cache, m.data),
                       !.found = Append(st.found, m.data.path)]

(***************************************************************************)
(* scan (main.rs 61-72).  st.ok = FALSE is a panic, which unwinds.         *)
(***************************************************************************)
RECURSIVE scan(_, _, _)
RECURSIVE scan_entries(_, _, _, _, _)

scan_entry(path, name, st, env) ==
    LET e == Append(path, name)
    IN IF is_dir(env.fs, e)
       THEN IF ends_with_dot_git(e)
            THEN update_repo_data(path, st, env)
            ELSE scan(e, st, env)
       ELSE st

RECURSIVE scan_entries_stop_at_repo(_, _, _, _, _)
scan_entries_stop_at_repo(path, es, i, st, env) ==
    IF i > Len(es) \/ ~st.ok THEN st
    ELSE IF es[i] = DotGit /\ is_dir(env.fs, Append(path, es[i]))
    THEN update_repo_data(path, st, env)
    ELSE scan_entries_stop_at_repo(path, es, i + 1,
                                   scan_entry(path, es[i], st, env), env)

scan_entries(path, es, i, st, env) ==
    IF i > Len(es) \/ ~st.ok THEN st
    ELSE scan_entries(path, es, i + 1, scan_entry(path, es[i], st, env), env)

scan(path, st, env) ==
    IF env.fault = [kind |-> "read_dir", at |-> path]
    THEN [st EXCEPT !.ok = FALSE]
    ELSE scan_entries(path, read_dir(env.fs, path, env.ord), 1,
                      [st EXCEPT !.visited = @ \cup {path}], env)

(***************************************************************************)
(* build_cache (main.rs 184-195)                                           *)
(***************************************************************************)
\* Ord for Option<NaiveDateTime>: None is less than every Some
OptLeq(x, y) == ~x.some \/ (y.some /\ x.val <= y.val)

\* slice::sort_by_key(|d| d.latest_commit): a stable sort, ascending
RECURSIVE sort_by_key(_)
sort_by_key(v) ==
    IF v = <<>> THEN <<>>
    ELSE LET n == Len(v)
             rest == sort_by_key(SubSeq(v, 1, n - 1))
             k == Cardinality({i \in 1..(n - 1) :
                                  OptLeq(rest[i].latest_commit, v[n].latest_commit)})
         IN SubSeq(rest, 1, k) \o <<v[n]>> \o SubSeq(rest, k + 1, n - 1)

order_cache_ascending(v) == sort_by_key(v)

\* main.rs 191-192: sort_by_key, then reverse
order_cache(v) == Reverse(sort_by_key(v))

\* get_cache_from_disk (main.rs 218-224)
get_cache_from_disk(file) ==
    IF file.exists THEN [ok |-> TRUE, cache |-> file.data]
    ELSE [ok |-> FALSE, cache |-> <<>>]

load_or_empty(file) ==
    LET r == get_cache_from_disk(file)
    IN IF r.ok THEN r.cache ELSE <<>>

build_cache(path, file, env) ==
    LET st == scan(path, [ok |-> TRUE, cache |-> load_or_empty(file),
                          visited |-> {}, found |-> <<>>], env)
    IN IF st.ok THEN [st EXCEPT !.cache = order_cache(st.cache)] ELSE st

\* save_cache_to_disk (main.rs 206-216)
save_cache_to_disk(cache) == [exists |-> TRUE, data |-> cache]

MissingFile == [exists |-> FALSE, data |-> <<>>]

(***************************************************************************)
(* print_recent (main.rs 232-252): the paths printed, in order             *)
(***************************************************************************)
print_recent(data, since, location, now) ==
    LET Keep(e) ==
            /\ e.latest_commit.some
            /\ \/ ~since.some
               \/ /\ now - e.latest_commit.val <= since.val
                  /\ starts_with(e.path, location)
        kept == SelectSeq(data, Keep)
    IN [i \in 1..Len(kept) |-> kept[i].path]

(***************************************************************************)
(* clone (main.rs 74-101)                                                  *)
(***************************************************************************)
looks_like_url(s) == starts_with(s, S_http) \/ starts_with(s, S_gitat)

\* args.iter().find(..): the index of the first url-like argument, 0 if none
first_url(args) ==
    LET hits == {i \in 1..Len(args) : looks_like_url(args[i])}
    IN IF hits = {} THEN 0 ELSE CHOOSE i \in hits : \A j \in hits : i <= j

\* e.upstream.iter().any(|url| get_url_ending(url) == name), left to right
RECURSIVE any_upstream(_, _, _)
any_upstream(ups, j, name) ==
    IF j > Len(ups) THEN "no"
    ELSE LET r == get_url_ending(ups[j])
         IN IF ~r.ok THEN "panic"
            ELSE IF r.val = name THEN "yes"
            ELSE any_upstream(ups, j + 1, name)

\* data.iter().find(..), first to last
RECURSIVE find_repo(_, _, _)
find_repo(data, i, name) ==
    IF i > Len(data) THEN [kind |-> "none", idx |-> 0]
    ELSE LET a == any_upstream(data[i].upstream, 1, name)
         IN IF a = "panic" THEN [kind |-> "panic", idx |-> i]
            ELSE IF a = "yes" THEN [kind |-> "some", idx |-> i]
            ELSE find_repo(data, i + 1, name)

NoReport == [some |-> FALSE, url |-> <<>>, path |-> <<>>]

clone(args, data) ==
    LET u == first_url(args)
    IN IF u = 0
       THEN [exit |-> "panic", report |-> NoReport, gitClone |-> <<>>]
       ELSE LET name == get_url_ending(args[u])
            IN IF ~name.ok
               THEN [exit |-> "panic", report |-> NoReport, gitClone |-> <<>>]
               ELSE LET m == find_repo(data, 1, name.val)
                    IN IF m.kind = "panic"
                       THEN [exit |-> "panic", report |-> NoReport, gitClone |-> <<>>]
                       ELSE IF m.kind = "some"
                       THEN [exit |-> "ok",
                             report |-> [some |-> TRUE, url |-> args[u],
                                         path |-> data[m.idx].path],
                             gitClone |-> <<>>]
                       ELSE [exit |-> "ok", report |-> NoReport,
                             gitClone |-> <<args>>]

(***************************************************************************)
(* main (main.rs 352-395): one run of the program                          *)
(***************************************************************************)
\* Local::now(), in days
Now == MaxTime + 1

\* main.rs 355-360: the value handed to print_recent
days_to_show(daysArg) == None

IdleRun ==
    [cmd |-> "none", root |-> Root, days |-> None, full |-> FALSE,
     exit |-> "none", loaded |-> <<>>, data |-> <<>>, visited |-> {},
     found |-> <<>>, printed |-> <<>>, writes |-> 0, args |-> <<>>,
     report |-> NoReport, gitClone |-> <<>>]

persist_always(st, file) == save_cache_to_disk(st.cache)

\* main.rs 370-371: save_cache_to_disk runs once build_cache has returned
persist(st, file) == IF st.ok THEN save_cache_to_disk(st.cache) ELSE file

main_scan(path, daysArg, file, env) ==
    LET r0 == [IdleRun EXCEPT !.cmd = "scan", !.root = path, !.days = daysArg]
    IN IF ~is_dir(env.fs, path)
       THEN [run |-> [r0 EXCEPT !.exit = "panic"], file |-> file]
       ELSE LET st == build_cache(path, file, env)
                r1 == [r0 EXCEPT !.loaded = load_or_empty(file),
                                 !.data = st.cache,
                                 !.visited = st.visited,
                                 !.found = st.found]
                out == persist(st, file)
            IN IF ~st.ok
               THEN [run |-> [r1 EXCEPT !.exit = "panic",
                                        !.writes = IF out = file THEN 0 ELSE 1],
                     file |-> out]
               ELSE [run |-> [r1 EXCEPT !.exit = "ok",
                                        !.writes = 1,
                                        !.printed = print_recent(st.cache,
                                                        days_to_show(daysArg),
                                                        PathStr(path), Now)],
                     file |-> out]

main_show(daysArg, full, file) ==
    LET r0 == [IdleRun EXCEPT !.cmd = "show", !.days = daysArg, !.full = full]
        c == get_cache_from_disk(file)
    IN IF ~c.ok THEN [r0 EXCEPT !.exit = "error"]
       ELSE IF full
       THEN [r0 EXCEPT !.exit = "ok", !.loaded = c.cache, !.data = c.cache]
       ELSE [r0 EXCEPT !.exit = "ok", !.loaded = c.cache, !.data = c.cache,
                       !.printed = print_recent(c.cache, days_to_show(daysArg),
                                                S_slash, Now)]

main_clone(args, file) ==
    LET r0 == [IdleRun EXCEPT !.cmd = "clone", !.args = args]
        c == get_cache_from_disk(file)
    IN IF ~c.ok THEN [r0 EXCEPT !.exit = "error"]
       ELSE LET o == clone(args, c.cache)
            IN [r0 EXCEPT !.exit = o.exit, !.loaded = c.cache, !.data = c.cache,
                          !.report = o.report, !.gitClone = o.gitClone]

(***************************************************************************)
(* Inputs                                                                  *)
(***************************************************************************)
MaxDays == 1

DaysArgs == {None} \cup {Some(n) : n \in 1..MaxDays}

Orders == {"asc", "desc"}

ScanRoots == DirUniverse

\* the faults that can strike a scan of root: a directory of the subtree
\* that cannot be read, a repository of the subtree git fails on
FaultsUnder(f, root) ==
    {x \in Faults :
        \/ x = NoFault
        \/ /\ x.kind = "read_dir" /\ x.at \in f.dirs /\ IsPrefix(root, x.at)
        \/ /\ x.kind = "git" /\ HasDotGit(f, x.at) /\ IsPrefix(root, x.at)}

\* what git reports for the repositories below root; it prints nothing on
\* stdout for a directory without a .git entry
GitWorldsUnder(f, root) ==
    LET live == {d \in RepoCandidates : HasDotGit(f, d) /\ IsPrefix(root, d)}
    IN {[d \in RepoCandidates |-> IF d \in live THEN h[d] ELSE EmptyReport] :
           h \in [live -> GitReports]}

Range(q) == {q[i] : i \in 1..Len(q)}

NothingFetched == [d \in RepoCandidates |-> [some |-> FALSE, report |-> EmptyReport]]

\* the remotes a cache loaded by clone may hold
\* "https://github.com/foo/baz (fetch)"
RemoteFooBaz == S_https \o S_github \o S_slash \o S_foo \o S_slash \o S_baz \o S_fetch

CloneRemotes == {RemoteFooBar \o S_fetch, RemoteFooBaz, S_local}

MaxRemotes == 2

SeqsUpTo(S, n) == UNION {[1..k -> S] : k \in 0..n}

\* caches as a scan leaves them: at most one record per repository path
CloneCaches ==
    LET paths == {PathStr(d) : d \in RepoCandidates}
        ups == SeqsUpTo(CloneRemotes, MaxRemotes)
    IN UNION {{[i \in 1..k |-> [path |-> ps[i], upstream |-> us[i],
                                latest_commit |-> None]] :
                  ps \in {q \in [1..k -> paths] :
                             \A i, j \in 1..k : q[i] = q[j] => i = j},
                  us \in [1..k -> ups]} : k \in 0..Cardinality(paths)}

\* "https://github.com/foo/bar.git"
ArgFooBar == S_https \o S_github \o S_slash \o S_foo \o S_slash \o S_bar \o S_dotgit

\* "git@github.com:foo/baz"
ArgFooBaz == S_gitat \o S_github \o S_colon \o S_foo \o S_slash \o S_baz

\* "git@github.com", no colon
ArgNoColon == S_gitat \o S_github

ArgLists ==
    {<<ArgFooBar>>, <<S_quiet, ArgFooBaz>>, <<ArgFooBar, S_dest>>,
     <<ArgFooBaz, ArgFooBar>>, <<S_quiet>>, <<ArgNoColon>>}

(***************************************************************************)
(* Actions                                                                 *)
(***************************************************************************)
\* between runs, directories and repositories come and go
FsChange ==
    /\ pc = "idle"
    /\ \E f \in FileSystems \ {fs} : fs' = f
    /\ UNCHANGED <<cacheFile, fetched, pc, run, url, ending>>

\* pplaces scan <path>
ScanCmd ==
    /\ pc = "idle"
    /\ \E path \in ScanRoots, daysArg \in DaysArgs, ord \in Orders :
         \E fault \in FaultsUnder(fs, path), git \in GitWorldsUnder(fs, path) :
            LET env == [fs |-> fs, ord |-> ord, git |-> git, fault |-> fault]
                out == main_scan(path, daysArg, cacheFile, env)
            IN /\ run' = out.run
               /\ cacheFile' = out.file
               /\ fetched' =
                     IF out.run.exit = "ok"
                     THEN [d \in RepoCandidates |->
                              IF PathStr(d) \in Range(out.run.found)
                              THEN [some |-> TRUE, report |-> git[d]]
                              ELSE fetched[d]]
                     ELSE fetched
    /\ pc' = "done"
    /\ UNCHANGED <<fs, url, ending>>

\* pplaces show [--full]
ShowCmd ==
    /\ pc = "idle"
    /\ \E daysArg \in DaysArgs, full \in BOOLEAN :
          run' = main_show(daysArg, full, cacheFile)
    /\ pc' = "done"
    /\ UNCHANGED <<fs, cacheFile, fetched, url, ending>>

\* pplaces clone <args>
CloneCmd ==
    /\ pc = "idle"
    /\ \E args \in ArgLists : run' = main_clone(args, cacheFile)
    /\ pc' = "done"
    /\ UNCHANGED <<fs, cacheFile, fetched, url, ending>>

\* the process ends
ProcessExit ==
    /\ pc = "done"
    /\ pc' = "idle"
    /\ run' = IdleRun
    /\ UNCHANGED <<fs, cacheFile, fetched, url, ending>>

\* tests::test_url_parser (main.rs 401-408): get_url_ending applied to a url
UrlEnding ==
    /\ pc = "url"
    /\ ~ending.done
    /\ LET r == get_url_ending(UrlText(url))
       IN ending' = [done |-> TRUE, ok |-> r.ok, val |-> r.val]
    /\ UNCHANGED <<fs, cacheFile, fetched, pc, run, url>>

Init ==
    /\ fs = EmptyFs
    /\ cacheFile = MissingFile
    /\ fetched = NothingFetched
    /\ pc = "idle"
    /\ run = IdleRun
    /\ url = NoUrl
    /\ ending = NoEnding

Next == FsChange \/ ScanCmd \/ ShowCmd \/ CloneCmd \/ ProcessExit

Spec == Init /\ [][Next]_vars

\* clone run on any cache a scan may have written
InitClone ==
    /\ fs = EmptyFs
    /\ cacheFile \in {save_cache_to_disk(c) : c \in CloneCaches}
    /\ fetched = NothingFetched
    /\ pc = "idle"
    /\ run = IdleRun
    /\ url = NoUrl
    /\ ending = NoEnding

NextClone == CloneCmd \/ ProcessExit

SpecClone == InitClone /\ [][NextClone]_vars

\* get_url_ending on every well-formed url
InitUrl ==
    /\ fs = EmptyFs
    /\ cacheFile = MissingFile
    /\ fetched = NothingFetched
    /\ pc = "url"
    /\ run = IdleRun
    /\ url \in UrlShapes
    /\ ending = NoEnding

NextUrl == UrlEnding

SpecUrl == InitUrl /\ [][NextUrl]_vars

(***************************************************************************)
(* Properties                                                              *)
(***************************************************************************)
ScanOk == pc = "done" /\ run.cmd = "scan" /\ run.exit = "ok"

ScanPanic == pc = "done" /\ run.cmd = "scan" /\ run.exit = "panic"

FoundPaths == Range(run.found)

ReportOf(e) == [upstream |-> e.upstream, latest_commit |-> e.latest_commit]

\* C1: for every well-formed url https://host/a/b or git@host:a/b, with or
\* without .git and with or without " (fetch)" / " (push)", get_url_ending
\* returns exactly a/b.
C1_UrlEndingIsOwnerRepo ==
    ending.done => (ending.ok /\ ending.val = url.a \o S_slash \o url.b)

\* the url ending of the first url-like argument of the clone run
CloneName == get_url_ending(run.args[first_url(run.args)])

\* record i of the loaded cache has a remote with the argument's url ending
CloneMatch(i) ==
    \E j \in 1..Len(run.loaded[i].upstream) :
        LET r == get_url_ending(run.loaded[i].upstream[j])
        IN r.ok /\ r.val = CloneName.val

CloneRan ==
    /\ pc = "done" /\ run.cmd = "clone" /\ run.exit # "error"
    /\ first_url(run.args) # 0
    /\ CloneName.ok

\* C2: when some cached record has a remote whose url ending equals that of
\* the first url-like argument, clone reports the path of such a record and
\* never runs git clone.
C2_CloneGuardHit ==
    (CloneRan /\ \E i \in 1..Len(run.loaded) : CloneMatch(i))
        => /\ run.report.some
           /\ \E i \in 1..Len(run.loaded) :
                 CloneMatch(i) /\ run.report.path = run.loaded[i].path
           /\ run.gitClone = <<>>

\* C3: when no remote of any cached record has the url ending of the first
\* url-like argument, clone runs git clone exactly once with the argument
\* list unchanged.
C3_CloneGuardMiss ==
    (CloneRan /\ ~\E i \in 1..Len(run.loaded) : CloneMatch(i))
        => run.gitClone = <<run.args>>

\* C4: the cache file holds at most one record per path, each record carries
\* what the most recent successful scan that found its path fetched, and a
\* path found by a scan has exactly one record afterwards.
C4_OneRecordPerPath ==
    cacheFile.exists =>
        LET c == cacheFile.data
        IN /\ \A i, j \in 1..Len(c) : c[i].path = c[j].path => i = j
           /\ \A i \in 1..Len(c) :
                 \E d \in RepoCandidates :
                    /\ PathStr(d) = c[i].path
                    /\ fetched[d].some
                    /\ fetched[d].report = ReportOf(c[i])
           /\ ScanOk =>
                 \A p \in FoundPaths :
                    Cardinality({i \in 1..Len(c) : c[i].path = p}) = 1

\* a scan has replaced the record of a path with different data
C4_Witness ==
    /\ ScanOk
    /\ \E i \in 1..Len(run.loaded) :
          /\ run.loaded[i].path \in FoundPaths
          /\ run.loaded[i] \notin Range(cacheFile.data)

\* C5: in the cache file no record with a last commit comes after a record
\* with an earlier last commit, and no record with a last commit comes after
\* a record without one.
C5_SortedNewestFirst ==
    cacheFile.exists =>
        LET c == cacheFile.data
        IN \A i, j \in 1..Len(c) :
              (i < j /\ c[j].latest_commit.some)
                  => /\ c[i].latest_commit.some
                     /\ c[i].latest_commit.val >= c[j].latest_commit.val

\* a record merged by this scan has been sorted ahead of an older record
\* carried over from the loaded cache
C5_Witness ==
    /\ ScanOk
    /\ \E i, j \in 1..Len(cacheFile.data) :
          /\ i < j
          /\ cacheFile.data[i].path \in FoundPaths
          /\ cacheFile.data[j] \in Range(run.loaded)
          /\ cacheFile.data[j].path \notin FoundPaths
          /\ cacheFile.data[j].latest_commit.some
          /\ cacheFile.data[i].latest_commit.val > cacheFile.data[j].latest_commit.val

\* C6: with the days filter given as N, scan and show (without --full) print
\* no record whose last commit is older than N days.
C6_DaysFilter ==
    (/\ pc = "done" /\ run.cmd \in {"scan", "show"} /\ run.exit = "ok"
     /\ run.days.some /\ ~run.full)
        => \A k \in 1..Len(run.printed) :
              \A i \in 1..Len(run.data) :
                 run.data[i].path = run.printed[k]
                     => /\ run.data[i].latest_commit.some
                        /\ Now - run.data[i].latest_commit.val <= run.days.val

\* the directories of the scanned subtree that directly contain a .git directory
ReposUnder(root) ==
    {d \in fs.dirs : IsPrefix(root, d) /\ Append(d, DotGit) \in fs.dirs}

\* C7: a successful scan creates or replaces a record for exactly the
\* directories of the subtree, root included, that directly contain a
\* directory named .git, one each, none for any other directory, and never
\* descends into a directory named .git.
C7_ScanRecordsExactlyRepos ==
    ScanOk =>
        /\ FoundPaths = {PathStr(d) : d \in ReposUnder(run.root)}
        /\ Len(run.found) = Cardinality(ReposUnder(run.root))
        /\ \A d \in ReposUnder(run.root) :
              /\ Cardinality({i \in 1..Len(run.data) :
                                 run.data[i].path = PathStr(d)}) = 1
              /\ \A i \in 1..Len(run.data) :
                    run.data[i].path = PathStr(d)
                        => ReportOf(run.data[i]) = fetched[d].report
        /\ \A i \in 1..Len(run.data) :
              run.data[i].path \notin FoundPaths
                  => run.data[i] \in Range(run.loaded)
        /\ \A v \in run.visited : v # run.root => ~ends_with_dot_git(v)

\* the root is a repository and is recorded; /a/b below it holds a .git
\* file, not a directory, and is walked but not recorded
C7_Witness ==
    /\ ScanOk
    /\ run.root = DirA
    /\ PathStr(DirA) \in FoundPaths
    /\ Append(DirAB, DotGit) \in fs.files
    /\ DirAB \in run.visited
    /\ PathStr(DirAB) \notin FoundPaths

\* C8: a successful scan keeps every record of the loaded cache whose path
\* it did not find: the cache file holds a record with the same path,
\* remotes and last commit.
C8_StaleRecordsKept ==
    ScanOk =>
        \A i \in 1..Len(run.loaded) :
            run.loaded[i].path \notin FoundPaths
                => run.loaded[i] \in Range(cacheFile.data)

\* a record whose directory is gone from disk survives a scan that merged
\* another record, at another position
C8_Witness ==
    /\ ScanOk
    /\ run.found # <<>>
    /\ \E i \in 1..Len(run.loaded) :
          /\ run.loaded[i].path = PathStr(DirAB)
          /\ DirAB \notin fs.dirs
          /\ run.loaded[i] \in Range(cacheFile.data)
          /\ cacheFile.data[i] # run.loaded[i]

\* C9: a scan that aborts leaves the cache file as it was; a scan writes
\* the file at most once, and only when it completes.
C9_AbortedScanKeepsFile ==
    [][(pc' = "done" /\ run'.cmd = "scan")
          => /\ run'.writes <= 1
             /\ run'.exit = "panic" => (cacheFile' = cacheFile /\ run'.writes = 0)
             /\ cacheFile' # cacheFile => (run'.exit = "ok" /\ run'.writes = 1)]_vars

\* a scan aborted after it had merged a record in memory; the file still
\* holds the cache as loaded
C9_Witness ==
    /\ ScanPanic
    /\ run.found # <<>>
    /\ run.data # run.loaded
    /\ cacheFile.exists
    /\ cacheFile.data = run.loaded

\* C10 as stated: a directory recorded as a repository is not walked
\* further, and no repository inside a recorded repository is recorded.
C10_RepoEndsBranch ==
    ScanOk =>
        \A d \in RepoCandidates :
            PathStr(d) \in FoundPaths
                => /\ \A v \in run.visited : IsPrefix(d, v) => v = d
                   /\ \A e \in RepoCandidates :
                         (PathStr(e) \in FoundPaths /\ IsPrefix(d, e)) => e = d

\* C10 amended: only the .git entry ends a branch.  Every directory
\* contained in a scanned directory is either named .git, which makes the
\* scanned directory a recorded repository and is not descended into, or is
\* recursed into, also when the scanned directory is a recorded repository.
C10_OnlyDotGitEndsBranch ==
    ScanOk =>
        \A v \in run.visited :
            \A e \in fs.dirs :
                (e # Root /\ Parent(e) = v)
                    => IF ends_with_dot_git(e)
                       THEN PathStr(v) \in FoundPaths /\ e \notin run.visited
                       ELSE e \in run.visited

\* /a is recorded and the repository /a/b inside it is walked and recorded
C10_Witness ==
    /\ ScanOk
    /\ PathStr(DirA) \in FoundPaths
    /\ DirAB \in run.visited
    /\ PathStr(DirAB) \in FoundPaths
====
